---- MODULE Spec2Model ----
(***************************************************************************)
(* The JDL business-rule validator of generator-jhipster                   *)
(* (jdl/validators/jdl-without-application-validator.ts).                  *)
(*                                                                         *)
(* A JDL object is assembled node by node, createValidator binds it to the *)
(* application settings, and checkForErrors walks the five phases          *)
(*   entities -> relationships -> enumerations -> deployments -> options.  *)
(* A phase either returns, possibly after logger.warn calls, or throws and *)
(* ends the run.  Messages are sequences of string tokens, so that the     *)
(* interpolation done by the template literals is computed, not assumed.   *)
(***************************************************************************)
EXTENDS Naturals, Sequences, FiniteSets

VARIABLES
  jdl,        \* the JDLObject handed to createValidator
  settings,   \* applicationSettings captured by the validator's closure
  pc,         \* position of the run
  warnings,   \* the messages passed to logger.warn, in call order
  error,      \* the thrown Error's message, <<>> while nothing is thrown
  checks,     \* the per-node checks executed so far, in order
  previous,   \* what the validator's earlier call of checkForErrors did
  locate      \* a call of locateGenerator: its arguments and what it returned

vars == <<jdl, settings, pc, warnings, error, checks, previous, locate>>

(***************************************************************************)
(* Bounds.                                                                 *)
(***************************************************************************)
\* total number of nodes (entities, fields, validations, relationships,
\* enumerations, deployments, options) of a JDL object
MaxNodes == 4
\* number of application descriptors of a JDL object
MaxApplications == 2
\* length of a generator namespace, in characters
MaxNamespaceLength == 4

(***************************************************************************)
(* Values.                                                                 *)
(***************************************************************************)
NoError == <<>>
Absent == ""            \* an undefined / falsy string attribute

SQL == "sql"
CASSANDRA == "cassandra"
GATEWAY == "gateway"
MONOLITH == "monolith"
MICROSERVICE == "microservice"
PAGINATION == "pagination"
SKIP_USER_MANAGEMENT == "skipUserManagement"
MANY_TO_MANY == "ManyToMany"
ONE_TO_ONE == "OneToOne"

EmptyJdl ==
  [entities |-> <<>>, relationships |-> <<>>, enums |-> <<>>,
   deployments |-> <<>>, options |-> <<>>, applications |-> <<>>]

\* createValidator called without a JDL object: a falsy first argument
NoJdlObject == [undefined |-> TRUE]

\* locateGenerator is not being called
NotLocating == [called |-> FALSE]

\* checkForErrors has not been called before
NoCall == [called |-> FALSE]

NoSettings ==
  [databaseType |-> Absent, applicationType |-> Absent,
   skippedUserManagement |-> FALSE, blueprints |-> <<>>]

(***************************************************************************)
(* Sequence helpers.                                                       *)
(***************************************************************************)
Range(s) == {s[i] : i \in 1..Len(s)}

\* Array.prototype.join
RECURSIVE join(_, _)
join(list, sep) ==
  IF Len(list) = 0 THEN <<>>
  ELSE IF Len(list) = 1 THEN <<list[1]>>
  ELSE <<list[1], sep>> \o join(Tail(list), sep)

\* String.prototype.toLowerCase, on the identifiers the model uses
toLowerCase(s) ==
  CASE s = "User" -> "user"
    [] s = "Authority" -> "authority"
    [] s = "Continue" -> "continue"
    [] s = "A" -> "a"
    [] s = "B" -> "b"
    [] s = "C" -> "c"
    [] OTHER -> s

\* the state of one run: warnings logged, error thrown, checks executed
Out(w, e, c) == [w |-> w, e |-> e, c |-> c]
Thrown(out) == out.e # NoError
\* mutant: the error is also handed to the logger
Throw_AlsoLogged(out, msg) == [out EXCEPT !.e = msg, !.w = Append(@, msg)]
Throw(out, msg) == [out EXCEPT !.e = msg]
Warn(out, msg) == [out EXCEPT !.w = Append(@, msg)]
Visit(out, chk) == [out EXCEPT !.c = Append(@, chk)]

(***************************************************************************)
(* The JDL object's queries (models/jdl-object).                           *)
(***************************************************************************)
getEntityQuantity(j) == Len(j.entities)
getRelationshipQuantity(j) == Len(j.relationships)
getEnumQuantity(j) == Len(j.enums)
getDeploymentQuantity(j) == Len(j.deployments)
getOptionQuantity(j) == Len(j.options)

\* !!jdlObject.getEntity(entityName)
doesEntityExist(j, entityName) ==
  \E i \in 1..Len(j.entities) : j.entities[i].name = entityName

hasEnum(j, type) == \E i \in 1..Len(j.enums) : j.enums[i].name = type

getOptionsForName(j, optionName) ==
  SelectSeq(j.options, LAMBDA o : o.name = optionName)

(***************************************************************************)
(* Reserved words (jhipster/reserved-keywords).                            *)
(***************************************************************************)
isReservedClassName(name) == toLowerCase(name) \in {"continue"}

isReservedTableName(tableName, databaseType) ==
  \/ toLowerCase(tableName) \in {"continue"}
  \/ databaseType = SQL /\ toLowerCase(tableName) \in {"order"}

isReservedFieldName(name) == toLowerCase(name) \in {"catch"}

isReservedPaginationWords(name) == toLowerCase(name) \in {"page", "sort", "size"}

(***************************************************************************)
(* Field types and the validations they support (jhipster/field-types).    *)
(***************************************************************************)
CommonDBTypes == {"String", "Integer", "Blob"}
CassandraTypes == {"String", "Integer", "UUID"}

\* fieldTypes.getIsType(databaseType) applied to a type
getIsType(databaseType, type) ==
  IF databaseType = CASSANDRA THEN type \in CassandraTypes
  ELSE type \in CommonDBTypes

\* fieldTypes.hasValidation(type, validation, isAnEnum)
hasValidation(type, validation, isAnEnum) ==
  IF isAnEnum THEN validation \in {"required", "unique"}
  ELSE CASE type = "String" -> validation \in {"required", "unique", "minlength", "maxlength", "pattern"}
         [] type = "Integer" -> validation \in {"required", "unique", "min", "max"}
         [] type = "Blob" -> validation \in {"required", "unique", "minbytes", "maxbytes"}
         [] OTHER -> FALSE

(***************************************************************************)
(* Shape validators: one node at a time, no knowledge of other nodes.      *)
(* Each records the check and throws on a malformed node.                  *)
(***************************************************************************)
EntityValidator(jdlEntity, out) ==
  LET o == Visit(out, <<"entity", jdlEntity.name>>) IN
  IF jdlEntity.name = Absent THEN Throw(o, <<"The entity attribute name was not found.">>)
  ELSE IF isReservedClassName(jdlEntity.name)
    THEN Throw(o, <<"The name '", jdlEntity.name,
                    "' is a reserved keyword and can not be used as an entity class name.">>)
    ELSE o

FieldValidator(jdlField, out) ==
  LET o == Visit(out, <<"field", jdlField.name>>) IN
  IF jdlField.type = Absent
    THEN Throw(o, <<"The field attribute type was not found.">>)
    ELSE o

ValidationValidator(jdlValidation, out) ==
  LET o == Visit(out, <<"validation", jdlValidation.name>>) IN
  IF jdlValidation.name \notin {"required", "unique"} /\ jdlValidation.value = Absent
    THEN Throw(o, <<"The validation ", jdlValidation.name, " requires a value.">>)
    ELSE o

RelationshipValidator(jdlRelationship, out) ==
  LET o == Visit(out, <<"relationship", jdlRelationship.from, jdlRelationship.to>>) IN
  IF jdlRelationship.injectedFieldInFrom = Absent /\ jdlRelationship.injectedFieldInTo = Absent
    THEN Throw(o, <<"In the relationship between ", jdlRelationship.from, " and ",
                    jdlRelationship.to, ", at least one injected field is required.">>)
    ELSE o

EnumValidator(jdlEnum, out) ==
  LET o == Visit(out, <<"enum", jdlEnum.name>>) IN
  IF isReservedClassName(jdlEnum.name)
    THEN Throw(o, <<"The enum name '", jdlEnum.name,
                    "' is reserved keyword and can not be used as enum class name.">>)
    ELSE o

DeploymentValidator(deployment, out) ==
  LET o == Visit(out, <<"deployment", deployment.deploymentType>>) IN
  IF deployment.deploymentType = Absent
    THEN Throw(o, <<"The deployment attribute deploymentType was not found.">>)
    ELSE o

UnaryOptionValidator(option, out) ==
  LET o == Visit(out, <<"unaryOption", option.name>>) IN
  IF option.name = Absent
    THEN Throw(o, <<"The option attribute name was not found.">>)
    ELSE o

BinaryOptionValidator(option, out) ==
  LET o == Visit(out, <<"binaryOption", option.name>>) IN
  IF option.value = Absent
    THEN Throw(o, <<"The option attribute value was not found.">>)
    ELSE o

(***************************************************************************)
(* jdl-without-application-validator.ts: the module-level functions.       *)
(***************************************************************************)
\* mutant: gateways are type-checked like any other application
getTypeCheckingFunction_NoGateway(entityName, applicationSettings, type) ==
  getIsType(applicationSettings.databaseType, type)

\* getTypeCheckingFunction(entityName, applicationSettings)(type)
getTypeCheckingFunction(entityName, applicationSettings, type) ==
  IF applicationSettings.applicationType = GATEWAY THEN TRUE
  ELSE getIsType(applicationSettings.databaseType, type)

isUserManagementEntity(entityName) ==
  toLowerCase(entityName) = "user" \/ toLowerCase(entityName) = "authority"

\* mutant: an undeclared User/Authority destination is excused when user
\* management is skipped, and reported otherwise
absentEntities_ExcusedWhenSkipped(jdlRelationship, j, skippedUserManagementOption) ==
  (IF ~doesEntityExist(j, jdlRelationship.from) THEN <<jdlRelationship.from>> ELSE <<>>)
  \o
  (IF /\ ~doesEntityExist(j, jdlRelationship.to)
      /\ (~isUserManagementEntity(jdlRelationship.to) \/ ~skippedUserManagementOption)
     THEN <<jdlRelationship.to>> ELSE <<>>)

\* the absentEntities array built by checkForAbsentEntities
absentEntities(jdlRelationship, j, skippedUserManagementOption) ==
  (IF ~doesEntityExist(j, jdlRelationship.from) THEN <<jdlRelationship.from>> ELSE <<>>)
  \o
  (IF /\ ~doesEntityExist(j, jdlRelationship.to)
      /\ (~isUserManagementEntity(jdlRelationship.to) \/ skippedUserManagementOption)
     THEN <<jdlRelationship.to>> ELSE <<>>)

\* mutant: the verb agrees with the wrong count
checkForAbsentEntities_WrongAgreement(jdlRelationship, j, skippedUserManagementOption, out) ==
  LET absent == absentEntities(jdlRelationship, j, skippedUserManagementOption)
      o == Visit(out, <<"absentEntities", jdlRelationship.from, jdlRelationship.to>>)
  IN IF Len(absent) # 0
       THEN Throw(o, <<"In the relationship between ", jdlRelationship.from, " and ",
                       jdlRelationship.to, ", ">>
                     \o join(absent, " and ")
                     \o <<" ", IF Len(absent) = 2 THEN "is" ELSE "are", " not declared.">>)
       ELSE o

checkForAbsentEntities(jdlRelationship, j, skippedUserManagementOption, out) ==
  LET absent == absentEntities(jdlRelationship, j, skippedUserManagementOption)
      o == Visit(out, <<"absentEntities", jdlRelationship.from, jdlRelationship.to>>)
  IN IF Len(absent) # 0
       THEN Throw(o, <<"In the relationship between ", jdlRelationship.from, " and ",
                       jdlRelationship.to, ", ">>
                     \o join(absent, " and ")
                     \o <<" ", IF Len(absent) = 1 THEN "is" ELSE "are", " not declared.">>)
       ELSE o

\* mutant: the database type is not looked at
checkForPaginationInAppWithCassandra_AnyDatabase(jdlOption, applicationSettings, out) ==
  LET o == Visit(out, <<"paginationWithCassandra", jdlOption.name>>) IN
  IF jdlOption.name = PAGINATION
    THEN Throw(o, <<"Pagination isn't allowed when the application uses Cassandra.">>)
    ELSE o

checkForPaginationInAppWithCassandra(jdlOption, applicationSettings, out) ==
  LET o == Visit(out, <<"paginationWithCassandra", jdlOption.name>>) IN
  IF applicationSettings.databaseType = CASSANDRA /\ jdlOption.name = PAGINATION
    THEN Throw(o, <<"Pagination isn't allowed when the application uses Cassandra.">>)
    ELSE o

(***************************************************************************)
(* createValidator's closures; j is jdlObject, s is applicationSettings.   *)
(***************************************************************************)
\* the body of jdlField.forEachValidation's callback
checkValidation(jdlField, jdlValidation, isAnEnum, out) ==
  LET o == ValidationValidator(jdlValidation, out) IN
  IF Thrown(o) THEN o
  ELSE IF ~hasValidation(jdlField.type, jdlValidation.name, isAnEnum)
    THEN Throw(o, <<"The validation '", jdlValidation.name,
                    "' isn't supported for the type '", jdlField.type, "'.">>)
    ELSE o

RECURSIVE forEachValidation(_, _, _, _)
forEachValidation(jdlField, isAnEnum, i, out) ==
  IF Thrown(out) \/ i > Len(jdlField.validations) THEN out
  ELSE forEachValidation(jdlField, isAnEnum, i + 1,
         checkValidation(jdlField, jdlField.validations[i], isAnEnum, out))

\* mutant: the enumeration flag is lost on the way to the support matrix
checkForValidationErrors_IgnoringEnum(jdlField, isAnEnum, out) ==
  forEachValidation(jdlField, FALSE, 1, out)

checkForValidationErrors(jdlField, isAnEnum, out) ==
  forEachValidation(jdlField, isAnEnum, 1, out)

\* mutant: a declared enumeration is not accepted as a field type
checkField_WithoutEnums(j, s, entityName, jdlField, out) ==
  LET filtering == s.databaseType = SQL
      o1 == FieldValidator(jdlField, out)
      o2 == IF isReservedFieldName(jdlField.name)
              THEN Warn(o1, <<"The name '", jdlField.name,
                    "' is a reserved keyword, so it will be prefixed with the value of 'jhiPrefix'.">>)
              ELSE o1
      o3 == Visit(o2, <<"fieldType", entityName, jdlField.name>>)
      isAnEnum == hasEnum(j, jdlField.type)
  IN IF Thrown(o1) THEN o1
     ELSE IF filtering /\ isReservedPaginationWords(jdlField.name)
       THEN Throw(o2, <<"Field name '", jdlField.name, "' found in ", entityName,
                        " is a reserved keyword, as it is used by Spring for pagination in the URL.">>)
     ELSE IF ~getTypeCheckingFunction(entityName, s, jdlField.type)
       THEN Throw(o3, <<"The type '", jdlField.type, "' is an unknown field type for field '",
                        jdlField.name, "' of entity '", entityName, "'.">>)
     ELSE checkForValidationErrors(jdlField, isAnEnum, o3)

\* mutant: the type is checked before the pagination words
checkField_TypeBeforePagination(j, s, entityName, jdlField, out) ==
  LET filtering == s.databaseType = SQL
      o1 == FieldValidator(jdlField, out)
      o2 == IF isReservedFieldName(jdlField.name)
              THEN Warn(o1, <<"The name '", jdlField.name,
                    "' is a reserved keyword, so it will be prefixed with the value of 'jhiPrefix'.">>)
              ELSE o1
      o3 == Visit(o2, <<"fieldType", entityName, jdlField.name>>)
      isAnEnum == hasEnum(j, jdlField.type)
  IN IF Thrown(o1) THEN o1
     ELSE IF ~hasEnum(j, jdlField.type) /\ ~getTypeCheckingFunction(entityName, s, jdlField.type)
       THEN Throw(o3, <<"The type '", jdlField.type, "' is an unknown field type for field '",
                        jdlField.name, "' of entity '", entityName, "'.">>)
     ELSE IF filtering /\ isReservedPaginationWords(jdlField.name)
       THEN Throw(o3, <<"Field name '", jdlField.name, "' found in ", entityName,
                        " is a reserved keyword, as it is used by Spring for pagination in the URL.">>)
     ELSE checkForValidationErrors(jdlField, isAnEnum, o3)

\* mutant: pagination words are refused whatever the database type
checkField_FilteringAnyDatabase(j, s, entityName, jdlField, out) ==
  LET o1 == FieldValidator(jdlField, out)
      o2 == IF isReservedFieldName(jdlField.name)
              THEN Warn(o1, <<"The name '", jdlField.name,
                    "' is a reserved keyword, so it will be prefixed with the value of 'jhiPrefix'.">>)
              ELSE o1
      o3 == Visit(o2, <<"fieldType", entityName, jdlField.name>>)
      isAnEnum == hasEnum(j, jdlField.type)
  IN IF Thrown(o1) THEN o1
     ELSE IF isReservedPaginationWords(jdlField.name)
       THEN Throw(o2, <<"Field name '", jdlField.name, "' found in ", entityName,
                        " is a reserved keyword, as it is used by Spring for pagination in the URL.">>)
     ELSE IF ~hasEnum(j, jdlField.type) /\ ~getTypeCheckingFunction(entityName, s, jdlField.type)
       THEN Throw(o3, <<"The type '", jdlField.type, "' is an unknown field type for field '",
                        jdlField.name, "' of entity '", entityName, "'.">>)
     ELSE checkForValidationErrors(jdlField, isAnEnum, o3)

\* the body of the Object.keys(jdlFields).forEach callback
checkField(j, s, entityName, jdlField, out) ==
  LET filtering == s.databaseType = SQL
      o1 == FieldValidator(jdlField, out)
      o2 == IF isReservedFieldName(jdlField.name)
              THEN Warn(o1, <<"The name '", jdlField.name,
                    "' is a reserved keyword, so it will be prefixed with the value of 'jhiPrefix'.">>)
              ELSE o1
      o3 == Visit(o2, <<"fieldType", entityName, jdlField.name>>)
      isAnEnum == hasEnum(j, jdlField.type)
  IN IF Thrown(o1) THEN o1
     ELSE IF filtering /\ isReservedPaginationWords(jdlField.name)
       THEN Throw(o2, <<"Field name '", jdlField.name, "' found in ", entityName,
                        " is a reserved keyword, as it is used by Spring for pagination in the URL.">>)
     ELSE IF ~hasEnum(j, jdlField.type) /\ ~getTypeCheckingFunction(entityName, s, jdlField.type)
       THEN Throw(o3, <<"The type '", jdlField.type, "' is an unknown field type for field '",
                        jdlField.name, "' of entity '", entityName, "'.">>)
     ELSE checkForValidationErrors(jdlField, isAnEnum, o3)

RECURSIVE forEachField(_, _, _, _, _, _)
forEachField(j, s, entityName, jdlFields, i, out) ==
  IF Thrown(out) \/ i > Len(jdlFields) THEN out
  ELSE forEachField(j, s, entityName, jdlFields, i + 1,
         checkField(j, s, entityName, jdlFields[i], out))

checkForFieldErrors(j, s, entityName, jdlFields, out) ==
  forEachField(j, s, entityName, jdlFields, 1, out)

\* mutant: a reserved table name is refused
checkEntity_RefusingReservedTableName(j, s, jdlEntity, out) ==
  LET o1 == EntityValidator(jdlEntity, out)
  IN IF Thrown(o1) THEN o1
     ELSE IF isReservedTableName(jdlEntity.tableName, s.databaseType)
       THEN Throw(o1, <<"The table name '", jdlEntity.tableName,
                    "' is a reserved keyword, so it will be prefixed with the value of 'jhiPrefix'.">>)
     ELSE checkForFieldErrors(j, s, jdlEntity.name, jdlEntity.fields, o1)

\* the body of jdlObject.forEachEntity's callback
checkEntity(j, s, jdlEntity, out) ==
  LET o1 == EntityValidator(jdlEntity, out)
      o2 == IF isReservedTableName(jdlEntity.tableName, s.databaseType)
              THEN Warn(o1, <<"The table name '", jdlEntity.tableName,
                    "' is a reserved keyword, so it will be prefixed with the value of 'jhiPrefix'.">>)
              ELSE o1
  IN IF Thrown(o1) THEN o1
     ELSE checkForFieldErrors(j, s, jdlEntity.name, jdlEntity.fields, o2)

RECURSIVE forEachEntity(_, _, _, _)
forEachEntity(j, s, i, out) ==
  IF Thrown(out) \/ i > Len(j.entities) THEN out
  ELSE forEachEntity(j, s, i + 1, checkEntity(j, s, j.entities[i], out))

\* mutant: the database type is demanded after the entities were checked
checkForEntityErrors_DatabaseTypeLast(j, s, out) ==
  IF getEntityQuantity(j) = 0 THEN out
  ELSE LET o == forEachEntity(j, s, 1, out) IN
       IF Thrown(o) \/ s.databaseType # Absent THEN o
       ELSE Throw(o, <<"Database type is required to validate entities.">>)

\* mutant: the database type is demanded before the entity count is looked at
checkForEntityErrors_DatabaseTypeFirst(j, s, out) ==
  IF s.databaseType = Absent
    THEN Throw(out, <<"Database type is required to validate entities.">>)
    ELSE IF getEntityQuantity(j) = 0 THEN out
    ELSE forEachEntity(j, s, 1, out)

checkForEntityErrors(j, s, out) ==
  IF getEntityQuantity(j) = 0 THEN out
  ELSE IF s.databaseType = Absent
    THEN Throw(out, <<"Database type is required to validate entities.">>)
    ELSE forEachEntity(j, s, 1, out)

\* applicationSettings.skippedUserManagement || getOptionsForName(SKIP_USER_MANAGEMENT)[0]
skippedUserManagement(j, s) ==
  s.skippedUserManagement \/ Len(getOptionsForName(j, SKIP_USER_MANAGEMENT)) > 0

\* the body of jdlObject.forEachRelationship's callback
checkRelationship(j, s, jdlRelationship, out) ==
  LET o == RelationshipValidator(jdlRelationship, out) IN
  IF Thrown(o) THEN o
  ELSE checkForAbsentEntities(jdlRelationship, j, skippedUserManagement(j, s), o)

RECURSIVE forEachRelationship(_, _, _, _)
forEachRelationship(j, s, i, out) ==
  IF Thrown(out) \/ i > Len(j.relationships) THEN out
  ELSE forEachRelationship(j, s, i + 1, checkRelationship(j, s, j.relationships[i], out))

checkForRelationshipErrors(j, s, out) ==
  IF getRelationshipQuantity(j) = 0 THEN out
  ELSE forEachRelationship(j, s, 1, out)

RECURSIVE forEachEnum(_, _, _)
forEachEnum(j, i, out) ==
  IF Thrown(out) \/ i > Len(j.enums) THEN out
  ELSE forEachEnum(j, i + 1, EnumValidator(j.enums[i], out))

checkForEnumErrors(j, out) ==
  IF getEnumQuantity(j) = 0 THEN out
  ELSE forEachEnum(j, 1, out)

RECURSIVE forEachDeployment(_, _, _)
forEachDeployment(j, i, out) ==
  IF Thrown(out) \/ i > Len(j.deployments) THEN out
  ELSE forEachDeployment(j, i + 1, DeploymentValidator(j.deployments[i], out))

checkDeploymentsErrors(j, out) ==
  IF getDeploymentQuantity(j) = 0 THEN out
  ELSE forEachDeployment(j, 1, out)

\* the body of the jdlObject.getOptions().forEach callback
checkOption(s, option, out) ==
  LET o == IF option.type = "UNARY" THEN UnaryOptionValidator(option, out)
           ELSE BinaryOptionValidator(option, out)
  IN IF Thrown(o) THEN o
     ELSE checkForPaginationInAppWithCassandra(option, s, o)

RECURSIVE forEachOption(_, _, _, _)
forEachOption(j, s, i, out) ==
  IF Thrown(out) \/ i > Len(j.options) THEN out
  ELSE forEachOption(j, s, i + 1, checkOption(s, j.options[i], out))

checkForOptionErrors(j, s, out) ==
  IF getOptionQuantity(j) = 0 THEN out
  ELSE forEachOption(j, s, 1, out)

(***************************************************************************)
(* Assembling the JDL object (JDLObject.addEntity, JDLEntity.addField,     *)
(* JDLField.addValidation, addRelationship, addEnum, addDeployment,        *)
(* addOption).  Keys are unique, as in the object's keyed collections.     *)
(***************************************************************************)
RECURSIVE FieldNodes(_)
FieldNodes(fields) ==
  IF Len(fields) = 0 THEN 0
  ELSE 1 + Len(fields[1].validations) + FieldNodes(Tail(fields))

RECURSIVE EntityNodes(_)
EntityNodes(entities) ==
  IF Len(entities) = 0 THEN 0
  ELSE 1 + FieldNodes(entities[1].fields) + EntityNodes(Tail(entities))

Nodes(j) ==
  EntityNodes(j.entities) + Len(j.relationships) + Len(j.enums)
  + Len(j.deployments) + Len(j.options)

Building == pc = "build" /\ Nodes(jdl) < MaxNodes

Pipeline == UNCHANGED <<settings, pc, warnings, error, checks, previous, locate>>

addEntity(names, tableNames) ==
  /\ Building
  /\ \E n \in names, tn \in tableNames :
       /\ ~doesEntityExist(jdl, n)
       /\ jdl' = [jdl EXCEPT !.entities =
                    Append(@, [name |-> n,
                               tableName |-> IF tn = Absent THEN toLowerCase(n) ELSE tn,
                               fields |-> <<>>])]
  /\ Pipeline

\* a field is added to the entity declared last
addField(names, types) ==
  /\ Building
  /\ Len(jdl.entities) > 0
  /\ \E n \in names, ty \in types :
       LET k == Len(jdl.entities) IN
       /\ \A i \in 1..Len(jdl.entities[k].fields) : jdl.entities[k].fields[i].name # n
       /\ jdl' = [jdl EXCEPT !.entities[k].fields =
                    Append(@, [name |-> n, type |-> ty, validations |-> <<>>])]
  /\ Pipeline

\* a validation is added to the last field of the entity declared last
addValidation(names, values) ==
  /\ Building
  /\ Len(jdl.entities) > 0
  /\ Len(jdl.entities[Len(jdl.entities)].fields) > 0
  /\ \E n \in names, v \in values :
       LET k == Len(jdl.entities)
           f == Len(jdl.entities[k].fields) IN
       /\ \A i \in 1..Len(jdl.entities[k].fields[f].validations) :
            jdl.entities[k].fields[f].validations[i].name # n
       /\ jdl' = [jdl EXCEPT !.entities[k].fields[f].validations =
                    Append(@, [name |-> n, value |-> v])]
  /\ Pipeline

addRelationship(froms, tos, types, injected) ==
  /\ Building
  /\ \E f \in froms, t \in tos, ty \in types, inj \in injected :
       LET r == [from |-> f, to |-> t, type |-> ty,
                 injectedFieldInFrom |-> inj, injectedFieldInTo |-> Absent] IN
       /\ r \notin Range(jdl.relationships)
       /\ jdl' = [jdl EXCEPT !.relationships = Append(@, r)]
  /\ Pipeline

addEnum(names) ==
  /\ Building
  /\ \E n \in names :
       /\ ~hasEnum(jdl, n)
       /\ jdl' = [jdl EXCEPT !.enums = Append(@, [name |-> n])]
  /\ Pipeline

addDeployment(deploymentTypes) ==
  /\ Building
  /\ \E d \in deploymentTypes :
       /\ [deploymentType |-> d] \notin Range(jdl.deployments)
       /\ jdl' = [jdl EXCEPT !.deployments = Append(@, [deploymentType |-> d])]
  /\ Pipeline

addOption(options) ==
  /\ Building
  /\ \E o \in options :
       /\ o \notin Range(jdl.options)
       /\ jdl' = [jdl EXCEPT !.options = Append(@, o)]
  /\ Pipeline

UnaryOption(name) == [type |-> "UNARY", name |-> name, value |-> Absent]
BinaryOption(name, value) == [type |-> "BINARY", name |-> name, value |-> value]

(***************************************************************************)
(* createValidator and the run of checkForErrors.                          *)
(***************************************************************************)
Settings(databaseTypes, applicationTypes, skipped, blueprints) ==
  [databaseType : databaseTypes, applicationType : applicationTypes,
   skippedUserManagement : skipped, blueprints : blueprints]

\* mutant: the blueprints list is not looked at
createValidator_IgnoringBlueprints(settingsSet) ==
  /\ pc = "build"
  /\ \E s \in settingsSet, jdlObject \in {jdl, NoJdlObject} :
       /\ jdl' = jdlObject
       /\ settings' = s
       /\ IF jdlObject = NoJdlObject
            THEN /\ error' = <<"A JDL object must be passed to check for business errors.">>
                 /\ pc' = "createValidatorThrown"
            ELSE /\ error' = error
                 /\ pc' = "validator"
  /\ UNCHANGED <<warnings, checks, previous, locate>>

\* mutant: the blueprints list is looked at before the JDL object
createValidator_BlueprintsFirst(settingsSet) ==
  /\ pc = "build"
  /\ \E s \in settingsSet, jdlObject \in {jdl, NoJdlObject} :
       /\ jdl' = jdlObject
       /\ settings' = s
       /\ IF Len(s.blueprints) # 0
            THEN /\ error' = error
                 /\ pc' = "skipper"
            ELSE IF jdlObject = NoJdlObject
            THEN /\ error' = <<"A JDL object must be passed to check for business errors.">>
                 /\ pc' = "createValidatorThrown"
            ELSE /\ error' = error
                 /\ pc' = "validator"
  /\ UNCHANGED <<warnings, checks, previous, locate>>

\* createValidator(jdlObject, applicationSettings, logger): jdlObject is the
\* JDL object built so far or nothing; without it no validator is returned
createValidator(settingsSet) ==
  /\ pc = "build"
  /\ \E s \in settingsSet, jdlObject \in {jdl, NoJdlObject} :
       /\ jdl' = jdlObject
       /\ settings' = s
       /\ IF jdlObject = NoJdlObject
            THEN /\ error' = <<"A JDL object must be passed to check for business errors.">>
                 /\ pc' = "createValidatorThrown"
            ELSE /\ error' = error
                 /\ pc' = IF Len(s.blueprints) # 0 THEN "skipper" ELSE "validator"
  /\ UNCHANGED <<warnings, checks, previous, locate>>

\* checkForErrors of the validator returned when blueprints are used
checkForErrorsWithBlueprints ==
  /\ pc = "skipper"
  /\ warnings' = Append(warnings, <<"Blueprints are being used, the JDL validation phase is skipped.">>)
  /\ pc' = "done"
  /\ UNCHANGED <<jdl, settings, error, checks, previous, locate>>

\* mutant: the validator remembers that the entities were checked
checkForErrors_EntitiesOnce ==
  /\ pc = "validator"
  /\ pc' = IF previous = NoCall THEN "checkForEntityErrors" ELSE "checkForRelationshipErrors"
  /\ UNCHANGED <<jdl, settings, warnings, error, checks, previous, locate>>

\* checkForErrors of the full validator is entered
checkForErrors ==
  /\ pc = "validator"
  /\ pc' = "checkForEntityErrors"
  /\ UNCHANGED <<jdl, settings, warnings, error, checks, previous, locate>>

\* the caller keeps what the first call of checkForErrors logged and threw,
\* and holds the same validator, model and settings for a second call
keepOutcome ==
  /\ pc \in {"done", "thrown"}
  /\ previous = NoCall
  /\ previous' = Out(warnings, error, checks)
  /\ warnings' = <<>>
  /\ error' = NoError
  /\ checks' = <<>>
  /\ pc' = IF Len(settings.blueprints) # 0 THEN "skipper" ELSE "validator"
  /\ UNCHANGED <<jdl, settings, locate>>

\* one phase of checkForErrors: its outcome is stored, then the next phase
\* is due unless the phase threw
Phase(this, out, next) ==
  /\ pc = this
  /\ warnings' = out.w
  /\ error' = out.e
  /\ checks' = out.c
  /\ pc' = IF Thrown(out) THEN "thrown" ELSE next
  /\ UNCHANGED <<jdl, settings, previous, locate>>

Current == Out(warnings, error, checks)

\* mutant: the relationship phase is left out of the sequence
EntityPhase_SkippingRelationships ==
  Phase("checkForEntityErrors", checkForEntityErrors(jdl, settings, Current),
        "checkForEnumErrors")

EntityPhase ==
  Phase("checkForEntityErrors", checkForEntityErrors(jdl, settings, Current),
        "checkForRelationshipErrors")

RelationshipPhase ==
  Phase("checkForRelationshipErrors", checkForRelationshipErrors(jdl, settings, Current),
        "checkForEnumErrors")

EnumPhase ==
  Phase("checkForEnumErrors", checkForEnumErrors(jdl, Current), "checkDeploymentsErrors")

DeploymentPhase ==
  Phase("checkDeploymentsErrors", checkDeploymentsErrors(jdl, Current), "checkForOptionErrors")

OptionPhase ==
  Phase("checkForOptionErrors", checkForOptionErrors(jdl, settings, Current), "done")

Run ==
  \/ checkForErrors
  \/ EntityPhase
  \/ RelationshipPhase
  \/ EnumPhase
  \/ DeploymentPhase
  \/ OptionPhase

Init ==
  /\ jdl = EmptyJdl
  /\ settings = NoSettings
  /\ pc = "build"
  /\ warnings = <<>>
  /\ error = NoError
  /\ checks = <<>>
  /\ previous = NoCall
  /\ locate = NotLocating

(***************************************************************************)
(* Spec: every kind of node, every setting.                                *)
(***************************************************************************)
AllSettings ==
  Settings({Absent, SQL, CASSANDRA}, {Absent, MONOLITH, GATEWAY}, BOOLEAN, {<<>>, <<"generator-jhipster-nodejs">>})

Next ==
  \/ addEntity({"A", "Continue"}, {Absent, "order"})
  \/ addField({"catch"}, {"String", "WeirdType"})
  \/ addRelationship({"A"}, {"A", "B"}, {ONE_TO_ONE}, {"other", Absent})
  \/ addEnum({"E", "Continue"})
  \/ addDeployment({"docker-compose", Absent})
  \/ addOption({UnaryOption(SKIP_USER_MANAGEMENT), BinaryOption(PAGINATION, "pagination"),
                BinaryOption(PAGINATION, Absent), BinaryOption("dto", "mapstruct")})
  \/ createValidator(AllSettings)
  \/ checkForErrorsWithBlueprints
  \/ Run
  \/ keepOutcome

Spec == Init /\ [][Next]_vars

(***************************************************************************)
(* SpecFields: entities with fields, validations and enumerations.         *)
(***************************************************************************)
FieldSettings ==
  Settings({SQL, CASSANDRA}, {MONOLITH, GATEWAY}, {FALSE}, {<<>>})

NextFields ==
  \/ addEntity({"A", "Continue"}, {Absent, "order"})
  \/ addField({"f", "catch", "page"}, {"String", "Integer", "WeirdType", "E", Absent})
  \/ addValidation({"required", "min"}, {"42", Absent})
  \/ addEnum({"E"})
  \/ createValidator(FieldSettings)
  \/ Run

SpecFields == Init /\ [][NextFields]_vars

(***************************************************************************)
(* SpecRelationships: relationships over declared and undeclared entities. *)
(***************************************************************************)
RelationshipSettings ==
  Settings({Absent, SQL}, {MONOLITH}, BOOLEAN, {<<>>})

NextRelationships ==
  \/ addEntity({"A", "B", "User"}, {Absent})
  \/ addRelationship({"A", "User"}, {"B", "User", "Authority"}, {ONE_TO_ONE}, {"other", Absent})
  \/ addOption({UnaryOption(SKIP_USER_MANAGEMENT)})
  \/ createValidator(RelationshipSettings)
  \/ Run

SpecRelationships == Init /\ [][NextRelationships]_vars

(***************************************************************************)
(* SpecApplications: the multi-application validator                        *)
(* (jdl-with-application-validator), as far as its test                    *)
(* 'with relationships between multiple applications' fixes it: entities   *)
(* claimed by applications and the relationships between them.             *)
(***************************************************************************)
\* jdlObject.addApplication(application), after application.addEntityNames
addApplication(entityNames) ==
  /\ pc = "build"
  /\ Len(jdl.applications) < MaxApplications
  /\ \E names \in SUBSET entityNames :
       jdl' = [jdl EXCEPT !.applications =
                 Append(@, [baseName |-> Len(jdl.applications) + 1, entityNames |-> names])]
  /\ Pipeline

\* the base names of the applications that claim the entity
applicationsPerEntityName(j, entityName) ==
  {j.applications[i].baseName :
     i \in {k \in 1..Len(j.applications) : entityName \in j.applications[k].entityNames}}

\* mutant: one application claiming both endpoints is enough
checkIfRelationshipIsBetweenApplications_CommonApplication(jdlRelationship, j, out) ==
  LET source == applicationsPerEntityName(j, jdlRelationship.from)
      destination == applicationsPerEntityName(j, jdlRelationship.to)
      o == Visit(out, <<"betweenApplications", jdlRelationship.from, jdlRelationship.to>>)
  IN IF source \cap destination = {}
       THEN Throw(o, <<"Entities for the ", jdlRelationship.type, " relationship from '",
                       jdlRelationship.from, "' to '", jdlRelationship.to,
                       "' do not belong to the same application.">>)
       ELSE o

\* The endpoints must be claimed by a common application, and (from the test
\* with app1 {A, B}, app2 {B, C}, app3 {A, B, C}, where A to B passes and B to
\* C fails) every application that claims the source must claim the
\* destination.
checkIfRelationshipIsBetweenApplications(jdlRelationship, j, out) ==
  LET source == applicationsPerEntityName(j, jdlRelationship.from)
      destination == applicationsPerEntityName(j, jdlRelationship.to)
      o == Visit(out, <<"betweenApplications", jdlRelationship.from, jdlRelationship.to>>)
  IN IF source \cap destination = {} \/ source \ destination # {}
       THEN Throw(o, <<"Entities for the ", jdlRelationship.type, " relationship from '",
                       jdlRelationship.from, "' to '", jdlRelationship.to,
                       "' do not belong to the same application.">>)
       ELSE o

checkRelationshipWithApplications(j, s, jdlRelationship, out) ==
  LET o == checkRelationship(j, s, jdlRelationship, out) IN
  IF Thrown(o) THEN o
  ELSE checkIfRelationshipIsBetweenApplications(jdlRelationship, j, o)

RECURSIVE forEachRelationshipWithApplications(_, _, _, _)
forEachRelationshipWithApplications(j, s, i, out) ==
  IF Thrown(out) \/ i > Len(j.relationships) THEN out
  ELSE forEachRelationshipWithApplications(j, s, i + 1,
         checkRelationshipWithApplications(j, s, j.relationships[i], out))

checkForRelationshipErrorsWithApplications(j, s, out) ==
  IF getRelationshipQuantity(j) = 0 THEN out
  ELSE forEachRelationshipWithApplications(j, s, 1, out)

\* createValidator(jdlObject) of the multi-application validator: the
\* settings are those of the applications (microservices on SQL)
createValidatorWithApplications ==
  /\ pc = "build"
  /\ Len(jdl.applications) > 0
  /\ settings' = [NoSettings EXCEPT !.databaseType = SQL, !.applicationType = MICROSERVICE]
  /\ pc' = "validator"
  /\ UNCHANGED <<jdl, warnings, error, checks, previous, locate>>

RelationshipPhaseWithApplications ==
  Phase("checkForRelationshipErrors",
        checkForRelationshipErrorsWithApplications(jdl, settings, Current),
        "checkForEnumErrors")

NextApplications ==
  \/ addEntity({"A", "B", "C"}, {Absent})
  \/ addRelationship({"A", "B"}, {"B", "C"}, {MANY_TO_MANY}, {"b"})
  \/ addApplication({"A", "B", "C"})
  \/ createValidatorWithApplications
  \/ checkForErrors
  \/ EntityPhase
  \/ RelationshipPhaseWithApplications
  \/ EnumPhase
  \/ DeploymentPhase
  \/ OptionPhase

SpecApplications == Init /\ [][NextApplications]_vars

\* checkForErrors of the full validator as one function of the model and
\* the settings: the five calls in sequence, a throw ending the sequence
checkForErrorsOutcome(j, s) ==
  checkForOptionErrors(j, s,
    checkDeploymentsErrors(j,
      checkForEnumErrors(j,
        checkForRelationshipErrors(j, s,
          checkForEntityErrors(j, s, Out(<<>>, NoError, <<>>))))))

(***************************************************************************)
(* locateGenerator(generator, env, options).                               *)
(* JavaScript values are records: undefined, or a string as the list of    *)
(* its characters; env is what env.requireNamespace does when called.      *)
(***************************************************************************)
undefined == [type |-> "undefined"]
String(chars) == [type |-> "string", chars |-> chars]

\* !value
Falsy(value) == value = undefined \/ value = String(<<>>)

\* the index of the first occurrence of the separator, 0 when there is none
indexOf(chars, separator) ==
  IF \E i \in 1..Len(chars) : chars[i] = separator
    THEN CHOOSE i \in 1..Len(chars) :
           chars[i] = separator /\ \A k \in 1..(i - 1) : chars[k] # separator
    ELSE 0

\* String.prototype.split(separator) with a one-character separator
RECURSIVE splitAll(_, _)
splitAll(chars, separator) ==
  LET i == indexOf(chars, separator) IN
  IF i = 0 THEN <<chars>>
  ELSE <<SubSeq(chars, 1, i - 1)>> \o splitAll(SubSeq(chars, i + 1, Len(chars)), separator)

\* String.prototype.split(separator, limit): the first `limit` pieces
split(chars, separator, limit) ==
  LET pieces == splitAll(chars, separator) IN
  SubSeq(pieces, 1, IF Len(pieces) < limit THEN Len(pieces) ELSE limit)

\* env.requireNamespace(namespace).generator: the value, or a throw, of the
\* call or of the property read on what it returned
requireNamespaceGenerator(env) ==
  IF env.throws THEN [thrown |-> TRUE, value |-> undefined]
  ELSE IF env.returns = undefined THEN [thrown |-> TRUE, value |-> undefined]
  ELSE [thrown |-> FALSE, value |-> env.returns.generator]

\* mutant: a lookup that finds no generator falls back to the namespace too
locateGenerator_FallbackWhenNotFound(generator, env, options) ==
  IF ~Falsy(generator) THEN [existingGenerator |-> generator, lookups |-> 0]
  ELSE LET found == requireNamespaceGenerator(env)
           pieces == split(options.namespace, ":", 2) IN
       IF ~found.thrown /\ found.value # undefined
         THEN [existingGenerator |-> found.value, lookups |-> 1]
         ELSE [existingGenerator |-> String(IF Len(pieces) = 1 THEN pieces[1] ELSE pieces[2]),
               lookups |-> 1]

\* what locateGenerator returns, and how often it called env.requireNamespace
locateGenerator(generator, env, options) ==
  IF ~Falsy(generator) THEN [existingGenerator |-> generator, lookups |-> 0]
  ELSE LET found == requireNamespaceGenerator(env)
           pieces == split(options.namespace, ":", 2) IN
       IF ~found.thrown
         THEN [existingGenerator |-> found.value, lookups |-> 1]
         ELSE [existingGenerator |-> String(IF Len(pieces) = 1 THEN pieces[1] ELSE pieces[2]),
               lookups |-> 1]

\* the strings of at most n characters over an alphabet
RECURSIVE Strings(_, _)
Strings(alphabet, n) ==
  IF n = 0 THEN {<<>>}
  ELSE LET shorter == Strings(alphabet, n - 1) IN
       shorter \cup {Append(s, c) : s \in shorter, c \in alphabet}

Generators == {undefined, String(<<>>), String(<<"g">>)}

Environments ==
  {[throws |-> TRUE, returns |-> undefined], [throws |-> FALSE, returns |-> undefined]}
  \cup {[throws |-> FALSE, returns |-> [generator |-> g]] : g \in {undefined, String(<<"f">>)}}

\* a caller about to call locateGenerator
InitLocateGenerator ==
  /\ jdl = EmptyJdl
  /\ settings = NoSettings
  /\ pc = "build"
  /\ warnings = <<>>
  /\ error = NoError
  /\ checks = <<>>
  /\ previous = NoCall
  /\ locate \in [called : {TRUE}, returned : {FALSE}, generator : Generators,
                 env : Environments,
                 options : [namespace : Strings({"a", "b", ":"}, MaxNamespaceLength)],
                 existingGenerator : {undefined}, lookups : {0}]

callLocateGenerator ==
  /\ locate.called /\ ~locate.returned
  /\ LET result == locateGenerator(locate.generator, locate.env, locate.options) IN
     locate' = [locate EXCEPT !.returned = TRUE,
                              !.existingGenerator = result.existingGenerator,
                              !.lookups = result.lookups]
  /\ UNCHANGED <<jdl, settings, pc, warnings, error, checks, previous>>

NextLocateGenerator == callLocateGenerator

SpecLocateGenerator == InitLocateGenerator /\ [][NextLocateGenerator]_vars

(***************************************************************************)
(* Vocabulary of the properties.                                           *)
(***************************************************************************)
Fresh == Out(<<>>, NoError, <<>>)
Finished == pc \in {"done", "thrown"}
Running ==
  pc \in {"checkForEntityErrors", "checkForRelationshipErrors", "checkForEnumErrors",
          "checkDeploymentsErrors", "checkForOptionErrors"}
\* createValidator returned a validator
Created == pc \notin {"build", "createValidatorThrown"}
FullValidator == Created /\ Len(settings.blueprints) = 0

\* the fatal finding of each phase taken on its own, <<>> when it has none
FatalFindings ==
  << checkForEntityErrors(jdl, settings, Fresh).e,
     checkForRelationshipErrors(jdl, settings, Fresh).e,
     checkForEnumErrors(jdl, Fresh).e,
     checkDeploymentsErrors(jdl, Fresh).e,
     checkForOptionErrors(jdl, settings, Fresh).e >>

FatalPhases == {p \in 1..5 : FatalFindings[p] # NoError}
FirstFatalPhase == CHOOSE p \in FatalPhases : \A q \in FatalPhases : p <= q

\* the phase a recorded check belongs to
PhaseOfCheck(chk) ==
  CASE chk[1] \in {"entity", "field", "fieldType", "validation"} -> 1
    [] chk[1] \in {"relationship", "absentEntities"} -> 2
    [] chk[1] = "enum" -> 3
    [] chk[1] = "deployment" -> 4
    [] OTHER -> 5

\* C1: with no blueprints, a finished run threw exactly when some phase has a
\* fatal finding; the error thrown is the finding of the earliest such phase
\* in the order entities, relationships, enumerations, deployments, options,
\* and no check of a later phase was executed.
C1_EarliestPhaseWins ==
  (FullValidator /\ Finished) =>
     LET findings == FatalFindings
         fatal == {p \in 1..5 : findings[p] # NoError}
         first == CHOOSE p \in fatal : \A q \in fatal : p <= q IN
     IF fatal = {}
       THEN pc = "done" /\ error = NoError
       ELSE /\ pc = "thrown"
            /\ error = findings[first]
            /\ \A i \in 1..Len(checks) : PhaseOfCheck(checks[i]) <= first

C1_Witness ==
  /\ FullValidator /\ pc = "thrown"
  /\ Cardinality(FatalPhases) >= 2
  /\ FirstFatalPhase = 2
  /\ Len(checks) > 0

\* C5: with a non-empty blueprints list the validator never throws, executes
\* no check, and its checkForErrors logs the one blueprint warning and nothing
\* else, whatever the model.
BlueprintWarning == <<"Blueprints are being used, the JDL validation phase is skipped.">>

C5_BlueprintsSkipValidation ==
  (Created /\ Len(settings.blueprints) # 0) =>
     /\ pc \in {"skipper", "done"}
     /\ error = NoError
     /\ checks = <<>>
     /\ warnings = IF pc = "done" THEN <<BlueprintWarning>> ELSE <<>>

C5_Witness ==
  /\ Created /\ pc = "done" /\ Len(settings.blueprints) # 0
  /\ warnings = <<BlueprintWarning>>
  /\ FatalPhases # {}

\* C10: a run over a model with no entity, relationship, enumeration,
\* deployment or option never throws, executes no check and logs nothing,
\* whatever the settings.
EmptyModel ==
  /\ getEntityQuantity(jdl) = 0 /\ getRelationshipQuantity(jdl) = 0
  /\ getEnumQuantity(jdl) = 0 /\ getDeploymentQuantity(jdl) = 0
  /\ getOptionQuantity(jdl) = 0

C10_EmptyModelSucceeds ==
  (FullValidator /\ EmptyModel) =>
     /\ pc # "thrown" /\ error = NoError
     /\ checks = <<>> /\ warnings = <<>>

C10_Witness ==
  /\ FullValidator /\ EmptyModel /\ pc = "done"
  /\ settings.databaseType = Absent /\ settings.applicationType = Absent

PaginationError == <<"Pagination isn't allowed when the application uses Cassandra.">>

\* the run got through the four phases before the options
ReachedOptions ==
  /\ FullValidator /\ Finished
  /\ \A p \in 1..4 : FatalFindings[p] = NoError

HasPagination == \E i \in 1..Len(jdl.options) : jdl.options[i].name = PAGINATION
FirstPagination ==
  CHOOSE i \in 1..Len(jdl.options) :
    /\ jdl.options[i].name = PAGINATION
    /\ \A k \in 1..(i - 1) : jdl.options[k].name # PAGINATION

\* the option passes the shape validator of its kind
WellFormedOption(o) ==
  IF o.type = "UNARY" THEN o.name # Absent ELSE o.value # Absent

\* C9 as claimed: under Cassandra the first pagination option makes the run
\* fail with the pagination error as soon as the options before it are well
\* formed; under any other database type that error is never thrown.
C9_AsClaimed ==
  /\ (ReachedOptions /\ settings.databaseType = CASSANDRA /\ HasPagination) =>
       ((\A k \in 1..(FirstPagination - 1) : WellFormedOption(jdl.options[k]))
          => (pc = "thrown" /\ error = PaginationError))
  /\ (Created /\ settings.databaseType # CASSANDRA) => error # PaginationError

\* C9 (amended): under Cassandra the first pagination option makes the run
\* fail with the pagination error when the options before it and the
\* pagination option itself are well formed; under any other database type
\* that error is never thrown.
C9_PaginationWithCassandra ==
  /\ (ReachedOptions /\ settings.databaseType = CASSANDRA /\ HasPagination) =>
       ((\A k \in 1..FirstPagination : WellFormedOption(jdl.options[k]))
          => /\ pc = "thrown" /\ error = PaginationError
             /\ checks[Len(checks)] = <<"paginationWithCassandra", PAGINATION>>)
  /\ (Created /\ settings.databaseType # CASSANDRA) => error # PaginationError

C9_Witness ==
  /\ ReachedOptions /\ settings.databaseType = CASSANDRA /\ HasPagination
  /\ FirstPagination = 2
  /\ pc = "thrown" /\ error = PaginationError

(***************************************************************************)
(* Fields.                                                                 *)
(***************************************************************************)
UnknownTypeError(e, f) ==
  <<"The type '", f.type, "' is an unknown field type for field '", f.name,
    "' of entity '", e.name, "'.">>

IsUnknownTypeError(err) ==
  Len(err) = 7 /\ err[3] = "' is an unknown field type for field '"

UnsupportedError(name, type) ==
  <<"The validation '", name, "' isn't supported for the type '", type, "'.">>

IsUnsupportedError(err) ==
  Len(err) = 5 /\ err[3] = "' isn't supported for the type '"

\* all (entity, field) pairs of the model
EntityFields ==
  UNION {{<<jdl.entities[i], jdl.entities[i].fields[k]>> : k \in 1..Len(jdl.entities[i].fields)} :
           i \in 1..Len(jdl.entities)}

\* the field got as far as the type check
ReachedTypeCheck(e, f) == <<"fieldType", e.name, f.name>> \in Range(checks)

\* neither a declared enumeration nor a type of the storage family
UnrecognizedType(type) ==
  /\ \A i \in 1..Len(jdl.enums) : jdl.enums[i].name # type
  /\ ~getIsType(settings.databaseType, type)

\* the model is regular but for the types of its constraint-free fields
OnlyTypesIrregular ==
  /\ Len(jdl.entities) > 0 => settings.databaseType # Absent
  /\ \A i \in 1..Len(jdl.entities) : ~isReservedClassName(jdl.entities[i].name)
  /\ \A ef \in EntityFields :
       /\ ef[2].type # Absent
       /\ ef[2].validations = <<>>
       /\ ~(settings.databaseType = SQL /\ isReservedPaginationWords(ef[2].name))
  /\ FatalFindings[2] = NoError /\ FatalFindings[3] = NoError
  /\ FatalFindings[4] = NoError /\ FatalFindings[5] = NoError

\* C6: on a gateway no run ends with the unknown-field-type error, and a
\* model whose only irregularity is the type of constraint-free fields
\* validates successfully.
C6_GatewayAcceptsAnyType ==
  (FullValidator /\ settings.applicationType = GATEWAY) =>
     /\ ~IsUnknownTypeError(error)
     /\ (Finished /\ OnlyTypesIrregular) => (pc = "done" /\ error = NoError)

C6_Witness ==
  /\ FullValidator /\ settings.applicationType = GATEWAY
  /\ pc = "done" /\ OnlyTypesIrregular
  /\ \E ef \in EntityFields : ReachedTypeCheck(ef[1], ef[2]) /\ UnrecognizedType(ef[2].type)

\* C7: off a gateway, a field that reached the type check makes the run fail
\* with the unknown-field-type error naming its type, itself and its entity
\* exactly when its type is neither a declared enumeration nor a type of the
\* active storage family.
C7_UnknownFieldType ==
  (FullValidator /\ settings.applicationType # GATEWAY) =>
     \A ef \in EntityFields :
        ReachedTypeCheck(ef[1], ef[2]) =>
          ((pc = "thrown" /\ error = UnknownTypeError(ef[1], ef[2]))
             <=> UnrecognizedType(ef[2].type))

C7_Witness ==
  /\ FullValidator /\ settings.applicationType # GATEWAY /\ pc = "thrown"
  /\ \E ef \in EntityFields, eg \in EntityFields :
       /\ ReachedTypeCheck(ef[1], ef[2]) /\ ef[2].type = "E" /\ hasEnum(jdl, "E")
       /\ ~getIsType(settings.databaseType, "E")
       /\ ReachedTypeCheck(eg[1], eg[2]) /\ error = UnknownTypeError(eg[1], eg[2])

\* the field reached the type check and passed it
PassedTypeCheck(e, f) ==
  ReachedTypeCheck(e, f) /\ error # UnknownTypeError(e, f)

\* the constraint passes its shape validator
WellFormedValidation(v) == v.name \in {"required", "unique"} \/ v.value # Absent

\* the support matrix refuses the constraint on this field
Unsupported(f, v) == ~hasValidation(f.type, v.name, hasEnum(jdl, f.type))

FirstIn(S) == CHOOSE i \in S : \A k \in S : i <= k

\* the last recorded check that is not a constraint's, and the number of
\* constraint checks recorded after it
LastNodeCheckAt ==
  CHOOSE i \in 0..Len(checks) :
    /\ i > 0 => checks[i][1] # "validation"
    /\ \A k \in (i + 1)..Len(checks) : checks[k][1] = "validation"
    /\ i = 0 => \A k \in 1..Len(checks) : checks[k][1] = "validation"

\* the run was ended by an error raised while this field's constraints
\* were being checked
FailedInConstraintsOf(e, f) ==
  /\ pc = "thrown"
  /\ LastNodeCheckAt > 0
  /\ checks[LastNodeCheckAt] = <<"fieldType", e.name, f.name>>
  /\ error # UnknownTypeError(e, f)

\* C8 as claimed: for a field that passed the type check, the first
\* constraint in list order that the support matrix refuses makes the run
\* fail with the unsupported-validation error; with none refused the field
\* raises no constraint error.
C8_AsClaimed ==
  FullValidator =>
    \A ef \in EntityFields :
      PassedTypeCheck(ef[1], ef[2]) =>
        LET f == ef[2]
            refused == {i \in 1..Len(f.validations) : Unsupported(f, f.validations[i])}
        IN IF refused = {}
             THEN ~(FailedInConstraintsOf(ef[1], f) /\ IsUnsupportedError(error))
             ELSE /\ pc = "thrown"
                  /\ error = UnsupportedError(f.validations[FirstIn(refused)].name, f.type)

\* C8 (amended): for a field that passed the type check, the constraints are
\* taken in list order, each first by the shape validator and then by the
\* support matrix with is-enum true exactly when the type names a declared
\* enumeration.  The first constraint that is malformed or refused ends the
\* run: with the unsupported-validation error when it is well formed, with
\* the shape validator's error otherwise.  With no such constraint the field
\* raises no error.
C8_ConstraintsInListOrder ==
  FullValidator =>
    \A ef \in EntityFields :
      PassedTypeCheck(ef[1], ef[2]) =>
        LET f == ef[2]
            bad == {i \in 1..Len(f.validations) :
                      \/ ~WellFormedValidation(f.validations[i])
                      \/ Unsupported(f, f.validations[i])}
        IN IF bad = {}
             THEN ~FailedInConstraintsOf(ef[1], f)
             ELSE LET v == f.validations[FirstIn(bad)] IN
                  /\ FailedInConstraintsOf(ef[1], f)
                  /\ Len(checks) - LastNodeCheckAt = FirstIn(bad)
                  /\ \A k \in 1..FirstIn(bad) :
                       checks[LastNodeCheckAt + k] = <<"validation", f.validations[k].name>>
                  /\ IF WellFormedValidation(v)
                       THEN error = UnsupportedError(v.name, f.type)
                       ELSE ~IsUnsupportedError(error)

C8_Witness ==
  /\ FullValidator /\ pc = "thrown"
  /\ \E ef \in EntityFields :
       /\ PassedTypeCheck(ef[1], ef[2])
       /\ Len(ef[2].validations) = 2
       /\ ~Unsupported(ef[2], ef[2].validations[1])
       /\ WellFormedValidation(ef[2].validations[1])
       /\ error = UnsupportedError(ef[2].validations[2].name, ef[2].type)

(***************************************************************************)
(* Relationships.                                                          *)
(***************************************************************************)
Declared(name) == \E i \in 1..Len(jdl.entities) : jdl.entities[i].name = name
UserOrAuthority(name) == name \in {"User", "Authority"}

\* skip-user-management is in force, by the settings or by an option
SkipUserManagement ==
  \/ settings.skippedUserManagement
  \/ \E i \in 1..Len(jdl.options) : jdl.options[i].name = SKIP_USER_MANAGEMENT

Relationships == Range(jdl.relationships)

\* the relationship got as far as the endpoint-existence check
ReachedEndpointCheck(r) == <<"absentEntities", r.from, r.to>> \in Range(checks)

\* the run was ended by the endpoint-existence check of this relationship
FailedAtEndpointsOf(r) ==
  /\ pc = "thrown"
  /\ checks[Len(checks)] = <<"absentEntities", r.from, r.to>>

NotDeclaredError(r, missing) ==
  <<"In the relationship between ", r.from, " and ", r.to, ", ">>
  \o (IF Len(missing) = 1 THEN <<missing[1], " ", "is">>
      ELSE <<missing[1], " and ", missing[2], " ", "are">>)
  \o <<" not declared.">>

\* a relationship from a declared entity to the undeclared User entity
ToUndeclaredUser(r) ==
  /\ r.to = "User" /\ ~Declared("User")
  /\ Declared(r.from)

\* C2 as claimed: a relationship to the undeclared User entity fails, naming
\* User as not declared, when skip-user-management is false, and does not
\* fail when it is true.
C2_AsClaimed ==
  FullValidator =>
    \A r \in Relationships :
      (ReachedEndpointCheck(r) /\ ToUndeclaredUser(r)) =>
        IF SkipUserManagement
          THEN ~FailedAtEndpointsOf(r)
          ELSE FailedAtEndpointsOf(r) /\ error = NotDeclaredError(r, <<"User">>)

\* C2 (amended): a relationship to the undeclared User entity fails, naming
\* User as not declared, when skip-user-management is true; when it is false
\* the relationship passes the check, and a model in which every relationship
\* is such a one, or has both endpoints declared, validates successfully.
Harmless(r) ==
  /\ r.injectedFieldInFrom # Absent \/ r.injectedFieldInTo # Absent
  /\ Declared(r.from)
  /\ Declared(r.to) \/ UserOrAuthority(r.to)

C2_UndeclaredUser ==
  FullValidator =>
    /\ \A r \in Relationships :
         (ReachedEndpointCheck(r) /\ ToUndeclaredUser(r)) =>
           IF SkipUserManagement
             THEN FailedAtEndpointsOf(r) /\ error = NotDeclaredError(r, <<"User">>)
             ELSE ~FailedAtEndpointsOf(r)
    /\ (/\ Finished /\ ~SkipUserManagement
        /\ FatalFindings[1] = NoError
        /\ \A r \in Relationships : Harmless(r))
         => (pc = "done" /\ error = NoError)

C2_Witness ==
  /\ FullValidator /\ pc = "done" /\ ~SkipUserManagement
  /\ \E r \in Relationships : ReachedEndpointCheck(r) /\ ToUndeclaredUser(r)

\* the endpoints that are not declared, from before to
Undeclared(r) ==
  (IF Declared(r.from) THEN <<>> ELSE <<r.from>>)
  \o (IF Declared(r.to) THEN <<>> ELSE <<r.to>>)

\* the endpoints the code reports: an undeclared User/Authority destination
\* is reported only when user management is skipped
Reported(r) ==
  (IF Declared(r.from) THEN <<>> ELSE <<r.from>>)
  \o (IF Declared(r.to) \/ (UserOrAuthority(r.to) /\ ~SkipUserManagement)
        THEN <<>> ELSE <<r.to>>)

HasPlainUndeclaredEndpoint(r) ==
  \/ ~Declared(r.from) /\ ~UserOrAuthority(r.from)
  \/ ~Declared(r.to) /\ ~UserOrAuthority(r.to)

\* C4 as claimed: a relationship that reached the endpoint check with an
\* undeclared endpoint other than User/Authority ends the run with one error
\* listing exactly its undeclared endpoints, from before to, with 'is' for
\* one and 'are' for two.
C4_AsClaimed ==
  FullValidator =>
    \A r \in Relationships :
      (ReachedEndpointCheck(r) /\ HasPlainUndeclaredEndpoint(r)) =>
         /\ FailedAtEndpointsOf(r)
         /\ error = NotDeclaredError(r, Undeclared(r))

\* C4 (amended): such a relationship ends the run with one error listing its
\* undeclared endpoints, from before to, with 'is' for one and 'are' for
\* two, except that an undeclared destination named User or Authority is
\* neither listed nor counted while user management is not skipped.
C4_NotDeclaredMessage ==
  FullValidator =>
    \A r \in Relationships :
      (ReachedEndpointCheck(r) /\ HasPlainUndeclaredEndpoint(r)) =>
         /\ FailedAtEndpointsOf(r)
         /\ error = NotDeclaredError(r, Reported(r))

C4_Witness ==
  /\ FullValidator /\ pc = "thrown"
  /\ \E r \in Relationships :
       /\ ReachedEndpointCheck(r)
       /\ ~Declared(r.from) /\ ~Declared(r.to) /\ r.from # r.to
       /\ ~UserOrAuthority(r.from) /\ ~UserOrAuthority(r.to)
       /\ error = <<"In the relationship between ", r.from, " and ", r.to, ", ",
                    r.from, " and ", r.to, " ", "are", " not declared.">>

(***************************************************************************)
(* Relationships between applications.                                     *)
(***************************************************************************)
Claims(a, name) == name \in jdl.applications[a].entityNames
Applications == 1..Len(jdl.applications)

BetweenApplicationsError(r) ==
  <<"Entities for the ", "ManyToMany", " relationship from '", r.from, "' to '", r.to,
    "' do not belong to the same application.">>

\* a many-to-many relationship with both endpoints declared, that got as far
\* as the application check
CheckedManyToMany(r) ==
  /\ r.type = MANY_TO_MANY
  /\ Declared(r.from) /\ Declared(r.to)
  /\ <<"betweenApplications", r.from, r.to>> \in Range(checks)

FailedBetweenApplications(r) ==
  /\ pc = "thrown"
  /\ checks[Len(checks)] = <<"betweenApplications", r.from, r.to>>
  /\ error = BetweenApplicationsError(r)

RECURSIVE FieldsFrom(_)
FieldsFrom(i) ==
  IF i > Len(jdl.entities) THEN <<>>
  ELSE [k \in 1..Len(jdl.entities[i].fields) |-> <<jdl.entities[i], jdl.entities[i].fields[k]>>]
       \o FieldsFrom(i + 1)

FieldsInOrder == FieldsFrom(1)

\* the fields whose shape validation was started, counted from the first
FieldChecks == Cardinality({i \in 1..Len(checks) : checks[i][1] = "field"})

\* the k-th field was taken up and passed its shape validator
ValidatedField(k) == k <= FieldChecks /\ FieldsInOrder[k][2].type # Absent

PaginationWordError(e, f) ==
  <<"Field name '", f.name, "' found in ", e.name,
    " is a reserved keyword, as it is used by Spring for pagination in the URL.">>

IsPaginationWordError(err) == Len(err) = 5 /\ err[1] = "Field name '"

ReservedFieldWarning(name) ==
  <<"The name '", name, "' is a reserved keyword, so it will be prefixed with the value of 'jhiPrefix'.">>

\* C11: a validated field named by a pagination word ends the run with the
\* pagination error under SQL and goes on to its type check under any other
\* database type, where no run ends with that error; a validated field with
\* a plain reserved name is warned about exactly once and goes on to the
\* rest of its checks.
C11_ReservedFieldNames ==
  (FullValidator /\ pc # "checkForEntityErrors") =>
    /\ settings.databaseType # SQL => ~IsPaginationWordError(error)
    /\ \A k \in 1..Len(FieldsInOrder) :
         LET e == FieldsInOrder[k][1]
             f == FieldsInOrder[k][2] IN
         /\ (ValidatedField(k) /\ isReservedPaginationWords(f.name)) =>
               IF settings.databaseType = SQL
                 THEN pc = "thrown" /\ error = PaginationWordError(e, f)
                 ELSE ReachedTypeCheck(e, f)
         /\ (ValidatedField(k) /\ isReservedFieldName(f.name)) =>
               \/ ReachedTypeCheck(e, f)
               \/ pc = "thrown" /\ error = PaginationWordError(e, f)
    /\ Cardinality({i \in 1..Len(warnings) :
                      \E k \in 1..Len(FieldsInOrder) :
                         warnings[i] = ReservedFieldWarning(FieldsInOrder[k][2].name)})
         = Cardinality({k \in 1..Len(FieldsInOrder) :
                          ValidatedField(k) /\ isReservedFieldName(FieldsInOrder[k][2].name)})

C11_Witness ==
  /\ FullValidator /\ settings.databaseType = SQL /\ pc = "thrown"
  /\ \E k \in 1..Len(FieldsInOrder), m \in 1..Len(FieldsInOrder) :
       /\ ValidatedField(k) /\ isReservedFieldName(FieldsInOrder[k][2].name)
       /\ ReachedTypeCheck(FieldsInOrder[k][1], FieldsInOrder[k][2])
       /\ warnings = <<ReservedFieldWarning(FieldsInOrder[k][2].name)>>
       /\ ValidatedField(m) /\ isReservedPaginationWords(FieldsInOrder[m][2].name)
       /\ error = PaginationWordError(FieldsInOrder[m][1], FieldsInOrder[m][2])

(***************************************************************************)
(* Reserved table names.                                                   *)
(***************************************************************************)
\* the model with every table name replaced by one that is not reserved
WithPlainTableNames(j) ==
  [j EXCEPT !.entities = [i \in 1..Len(j.entities) |-> [j.entities[i] EXCEPT !.tableName = "plain"]]]

EntityChecks == Cardinality({i \in 1..Len(checks) : checks[i][1] = "entity"})

\* the k-th entity was taken up and passed its shape validator
ValidatedEntity(k) == k <= EntityChecks /\ ~isReservedClassName(jdl.entities[k].name)

ReservedTable(k) == isReservedTableName(jdl.entities[k].tableName, settings.databaseType)

ReservedTableWarning(tableName) ==
  <<"The table name '", tableName,
    "' is a reserved keyword, so it will be prefixed with the value of 'jhiPrefix'.">>

\* C12: a finished run executed the checks and ended with the outcome it
\* would have had with no table name reserved, so a model that is valid
\* otherwise succeeds; each validated entity with a reserved table name is
\* warned about, once per such entity.
C12_ReservedTableNameWarns ==
  (FullValidator /\ Finished) =>
    /\ LET plain == checkForErrorsOutcome(WithPlainTableNames(jdl), settings) IN
       error = plain.e /\ checks = plain.c
    /\ \A k \in 1..Len(jdl.entities) :
         (ValidatedEntity(k) /\ ReservedTable(k)) =>
            ReservedTableWarning(jdl.entities[k].tableName) \in Range(warnings)
    /\ Cardinality({i \in 1..Len(warnings) :
                      \E k \in 1..Len(jdl.entities) :
                         warnings[i] = ReservedTableWarning(jdl.entities[k].tableName)})
         = Cardinality({k \in 1..Len(jdl.entities) : ValidatedEntity(k) /\ ReservedTable(k)})

C12_Witness ==
  /\ FullValidator /\ pc = "done" /\ error = NoError
  /\ Len(jdl.entities) = 1 /\ ValidatedEntity(1) /\ ReservedTable(1)
  /\ Len(jdl.entities[1].fields) = 2
  /\ ReachedTypeCheck(jdl.entities[1], jdl.entities[1].fields[1])
  /\ ReachedTypeCheck(jdl.entities[1], jdl.entities[1].fields[2])
  /\ Len(jdl.enums) = 1 /\ <<"enum", jdl.enums[1].name>> \in Range(checks)
  /\ Len(warnings) = 2
  /\ warnings[1] = ReservedTableWarning(jdl.entities[1].tableName)

(***************************************************************************)
(* createValidator without a JDL object.                                   *)
(***************************************************************************)
NoJdlObjectError == <<"A JDL object must be passed to check for business errors.">>

\* C13: whenever createValidator was called without a JDL object it threw
\* the missing-object error, whatever the settings, blueprints included: no
\* validator exists, no check was executed and nothing was logged.
C13_JdlObjectRequired ==
  (pc # "build" /\ jdl = NoJdlObject) =>
     /\ pc = "createValidatorThrown"
     /\ error = NoJdlObjectError
     /\ warnings = <<>> /\ checks = <<>>

C13_Witness ==
  /\ jdl = NoJdlObject /\ pc = "createValidatorThrown" /\ error = NoJdlObjectError
  /\ Len(settings.blueprints) # 0

(***************************************************************************)
(* Warnings and errors.                                                    *)
(***************************************************************************)
\* the number of fields of the entities before the i-th
RECURSIVE FieldsBefore(_)
FieldsBefore(i) ==
  IF i <= 1 THEN 0 ELSE FieldsBefore(i - 1) + Len(jdl.entities[i - 1].fields)

\* the warnings of the validated fields among the first n fields of entity i:
\* a field with a reserved name is warned about once its shape is validated
RECURSIVE FieldWarnings(_, _)
FieldWarnings(i, n) ==
  IF n = 0 THEN <<>>
  ELSE LET k == FieldsBefore(i) + n
           f == jdl.entities[i].fields[n] IN
       FieldWarnings(i, n - 1)
       \o (IF k <= FieldChecks /\ f.type # Absent /\ isReservedFieldName(f.name)
             THEN <<ReservedFieldWarning(f.name)>> ELSE <<>>)

\* the warnings of the nodes visited, in pipeline order: an entity with a
\* reserved table name is warned about once its shape is validated, before
\* its fields are taken up
RECURSIVE EntityWarnings(_)
EntityWarnings(i) ==
  IF i = 0 THEN <<>>
  ELSE EntityWarnings(i - 1)
       \o (IF ValidatedEntity(i) /\ ReservedTable(i)
             THEN <<ReservedTableWarning(jdl.entities[i].tableName)>> ELSE <<>>)
       \o FieldWarnings(i, Len(jdl.entities[i].fields))

\* C14: in every run, ended or not, the logger has received the warnings of
\* the nodes visited so far in pipeline order and nothing else (the single
\* blueprint warning when blueprints are used), never the text of the error;
\* an error is thrown only by a run that stops there, so at most once.
C14_WarningsAreAdvisory ==
  Created =>
    /\ warnings = IF Len(settings.blueprints) # 0
                    THEN (IF pc = "done" THEN <<BlueprintWarning>> ELSE <<>>)
                    ELSE EntityWarnings(Len(jdl.entities))
    /\ error \notin Range(warnings)
    /\ error # NoError <=> pc = "thrown"

C14_Witness ==
  /\ FullValidator /\ pc = "thrown"
  /\ Len(warnings) = 2
  /\ \E k \in 1..Len(jdl.entities) : warnings[1] = ReservedTableWarning(jdl.entities[k].tableName)
  /\ \E k \in 1..Len(FieldsInOrder) : warnings[2] = ReservedFieldWarning(FieldsInOrder[k][2].name)
  /\ IsUnknownTypeError(error)

DatabaseTypeError == <<"Database type is required to validate entities.">>

\* C16: with no blueprints, once the entity phase is over the run has thrown
\* the database-type error exactly when the model has an entity and the
\* settings have no database type; no check was executed and nothing was
\* logged before it, and a model without entities never ends with it.
C16_DatabaseTypeRequired ==
  (FullValidator /\ pc \notin {"validator", "checkForEntityErrors"}) =>
     /\ (pc = "thrown" /\ error = DatabaseTypeError)
          <=> (getEntityQuantity(jdl) > 0 /\ settings.databaseType = Absent)
     /\ error = DatabaseTypeError => (checks = <<>> /\ warnings = <<>>)

C16_Witness ==
  /\ FullValidator /\ pc = "thrown" /\ error = DatabaseTypeError
  /\ checks = <<>> /\ warnings = <<>>
  /\ \E k \in 1..Len(jdl.entities) :
       isReservedClassName(jdl.entities[k].name) /\ ReservedTable(k)
  /\ FatalFindings[5] # NoError

(***************************************************************************)
(* The order of the steps inside the entity phase.                         *)
(***************************************************************************)
ReservedClassNameError(e) ==
  <<"The name '", e.name, "' is a reserved keyword and can not be used as an entity class name.">>

\* the finding of one constraint: its shape first, then the support matrix
ValidationFinding(f, v) ==
  IF ~WellFormedValidation(v) THEN <<"The validation ", v.name, " requires a value.">>
  ELSE IF Unsupported(f, v) THEN UnsupportedError(v.name, f.type)
  ELSE NoError

\* the first finding in a sequence of findings, <<>> when there is none
RECURSIVE FirstFinding(_)
FirstFinding(findings) ==
  IF Len(findings) = 0 THEN NoError
  ELSE IF Head(findings) # NoError THEN Head(findings)
  ELSE FirstFinding(Tail(findings))

\* the finding of one field: shape, pagination word, type, then its
\* constraints in insertion order
FieldFinding(e, f) ==
  IF f.type = Absent THEN <<"The field attribute type was not found.">>
  ELSE IF settings.databaseType = SQL /\ isReservedPaginationWords(f.name)
    THEN PaginationWordError(e, f)
  ELSE IF settings.applicationType # GATEWAY /\ UnrecognizedType(f.type)
    THEN UnknownTypeError(e, f)
  ELSE FirstFinding([v \in 1..Len(f.validations) |-> ValidationFinding(f, f.validations[v])])

\* the finding of one entity: shape, then its fields in insertion order
EntityFinding(e) ==
  IF isReservedClassName(e.name) THEN ReservedClassNameError(e)
  ELSE FirstFinding([k \in 1..Len(e.fields) |-> FieldFinding(e, e.fields[k])])

\* the checks of one field and of one entity in the order of their steps
FieldWalk(e, f) ==
  <<<<"field", f.name>>, <<"fieldType", e.name, f.name>>>>
  \o [v \in 1..Len(f.validations) |-> <<"validation", f.validations[v].name>>]

RECURSIVE FieldsWalk(_, _)
FieldsWalk(e, n) ==
  IF n = 0 THEN <<>> ELSE FieldsWalk(e, n - 1) \o FieldWalk(e, e.fields[n])

RECURSIVE EntitiesWalk(_)
EntitiesWalk(i) ==
  IF i = 0 THEN <<>>
  ELSE EntitiesWalk(i - 1) \o <<<<"entity", jdl.entities[i].name>>>>
       \o FieldsWalk(jdl.entities[i], Len(jdl.entities[i].fields))

\* the checks the entity phase executed
EntityPhaseChecks ==
  SubSeq(checks, 1, Cardinality({i \in 1..Len(checks) : PhaseOfCheck(checks[i]) = 1}))

\* C17: with a database type set, the entity phase takes the entities in
\* insertion order and, for each, its shape, its table name and its fields
\* in insertion order, each field by shape, reserved name, pagination word,
\* type and constraints: the checks executed are an initial part of that
\* walk, all of it when nothing is found, and the run throws the first
\* finding met on the walk.
C17_EntityPhaseOrder ==
  (/\ FullValidator /\ pc \notin {"validator", "checkForEntityErrors"}
   /\ settings.databaseType # Absent) =>
     LET walk == EntitiesWalk(Len(jdl.entities))
         first == FirstFinding([i \in 1..Len(jdl.entities) |-> EntityFinding(jdl.entities[i])])
         n == Len(EntityPhaseChecks) IN
     /\ n <= Len(walk) /\ EntityPhaseChecks = SubSeq(walk, 1, n)
     /\ IF first = NoError
          THEN n = Len(walk) /\ (error # NoError => Len(checks) > n)
          ELSE pc = "thrown" /\ error = first /\ Len(checks) = n
     /\ warnings = EntityWarnings(Len(jdl.entities))

C17_Witness ==
  /\ FullValidator /\ pc = "thrown" /\ settings.databaseType = SQL
  /\ settings.applicationType # GATEWAY
  /\ Len(jdl.entities) = 2
  /\ ~isReservedClassName(jdl.entities[1].name) /\ isReservedClassName(jdl.entities[2].name)
  /\ Len(jdl.entities[1].fields) = 1
  /\ isReservedPaginationWords(jdl.entities[1].fields[1].name)
  /\ UnrecognizedType(jdl.entities[1].fields[1].type)
  /\ jdl.entities[1].fields[1].type # Absent
  /\ error = PaginationWordError(jdl.entities[1], jdl.entities[1].fields[1])
  /\ warnings = <<ReservedTableWarning(jdl.entities[1].tableName)>>

(***************************************************************************)
(* locateGenerator.                                                        *)
(***************************************************************************)
Colons(chars) == {i \in 1..Len(chars) : chars[i] = ":"}

\* the namespace when it has no colon, else what lies between its first
\* colon and its second, or its end when it has one colon only
NameIn(chars) ==
  IF Colons(chars) = {} THEN chars
  ELSE LET first == FirstIn(Colons(chars))
           later == Colons(chars) \ {first}
           last == IF later = {} THEN Len(chars) + 1 ELSE FirstIn(later) IN
       SubSeq(chars, first + 1, last - 1)

\* C18: a truthy generator is returned as it is, with no call of
\* env.requireNamespace; for a falsy one the namespace is looked up once,
\* and what the lookup gives is returned, undefined included, unless the
\* lookup throws: then the name in the namespace is returned.
C18_LocateGenerator ==
  (locate.called /\ locate.returned) =>
     IF ~Falsy(locate.generator)
       THEN locate.existingGenerator = locate.generator /\ locate.lookups = 0
       ELSE /\ locate.lookups = 1
            /\ IF ~locate.env.throws /\ locate.env.returns # undefined
                 THEN locate.existingGenerator = locate.env.returns.generator
                 ELSE locate.existingGenerator = String(NameIn(locate.options.namespace))

C18_Witness ==
  /\ locate.called /\ locate.returned
  /\ Falsy(locate.generator) /\ locate.env.throws
  /\ Cardinality(Colons(locate.options.namespace)) = 2
  /\ locate.options.namespace[Len(locate.options.namespace)] # ":"
  /\ locate.existingGenerator = String(<<"b">>)

====
